---- MODULE Spec2Model ----
(***************************************************************************)
(* QuizAI: the App component (session engine, retake filter, correction    *)
(* workflow, history ledger, localStorage persistence) together with the   *)
(* extraction client extractMCQsFromText.                                  *)
(*                                                                         *)
(* The repository carries two revisions of App and two revisions of the    *)
(* extraction client.  The variable build selects the revision a behaviour *)
(* runs: "strict" is App of part_002 with the strict client (part_000      *)
(* lines 4-91), "augmented" is App of part_003 with the augmented client   *)
(* (part_000 lines 97-176).  build never changes after Init.               *)
(*                                                                         *)
(* One action is one React event handler (or one resumption of the async   *)
(* handleFileUpload after an await) followed by the re-render and the      *)
(* persistence effects of that render.                                     *)
(***************************************************************************)
EXTENDS Integers, Sequences, FiniteSets, TLC

\* ------------------------------------------------------------------ bounds
MaxQ == 2            \* questions in one backend reply
MaxAttempts == 2     \* attempts kept in the ledger during a run
MaxInFlight == 2     \* handleFileUpload invocations suspended at once
MaxNow == 1          \* readings of Date.now() are 0..MaxNow

\* --------------------------------------------------------------- constants
NULL == "null"                       \* JS null / undefined / absent key
LowConfidencePct == 80               \* q.confidence < 0.8, in percent
MinStrippedTextLen == 20             \* strict App: stripped text length
MinTextLen == 50                     \* augmented App: raw text length

AnswerSentinel == "Answer not found in PDF"
Builds == {"strict", "augmented"}
Modes == {"UPLOAD", "EXTRACTING", "QUIZ", "RESULTS", "ADMIN", "PROGRESS"}
\* the value of mode while no App is mounted (its construction threw)
Unmounted == "UNMOUNTED"

VARIABLES
  build,          \* which revision of the sources runs
  now,            \* Date.now()
  mode,           \* AppMode
  questions,      \* MCQ[]  (QuizMeta.questions)
  quizName,       \* QuizMeta.title
  quizState,      \* QuizState: questions, currentQuestionIndex, userAnswers, isFinished
  attempts,       \* Attempt[], newest first
  pendingAnswer,  \* string | null
  error,          \* string | null
  storage,        \* localStorage: the quiz slot and the history slot
  uploads         \* suspended handleFileUpload invocations, oldest first

vars == <<build, now, mode, questions, quizName, quizState, attempts,
          pendingAnswer, error, storage, uploads>>

\* ------------------------------------------------------------- sequences
RECURSIVE SelectSeqBy(_, _)
\* Array.prototype.filter with the predicate given as a set of kept indices
SelectSeqBy(s, keep) ==
  IF s = <<>> THEN <<>>
  ELSE LET n == Len(s)
           front == SelectSeqBy(SubSeq(s, 1, n - 1), keep)
       IN IF n \in keep THEN Append(front, s[n]) ELSE front

Ids(qs) == {qs[i].id : i \in 1..Len(qs)}

\* Sequences over S of length 0..n
RECURSIVE SeqsUpTo(_, _)
SeqsUpTo(S, n) ==
  IF n = 0 THEN {<<>>}
  ELSE LET shorter == SeqsUpTo(S, n - 1)
       IN shorter \cup {Append(s, x) : s \in {t \in shorter : Len(t) = n - 1}, x \in S}

EmptyAnswers == <<>>     \* {} : no key

\* userAnswers[id], undefined when the key is absent
AnswerOf(answers, id) == IF id \in DOMAIN answers THEN answers[id] ELSE NULL

\* { ...answers, [id]: value }
WithAnswer(answers, id, value) ==
  [k \in (DOMAIN answers) \cup {id} |-> IF k = id THEN value ELSE answers[k]]

\* ------------------------------------------------------ extraction client
\* What response.text of the backend can be.  A text is described by the
\* parts the client looks at: surrounding whitespace, a code fence around
\* the payload (none, a plain one or one tagged json), and the payload
\* itself, which is either not JSON or a JSON document.
DefaultTitle(b) == IF b = "strict" THEN "Untitled Quiz" ELSE "QuizAI Generated Quiz"
InitialQuizName(b) == IF b = "strict" THEN "Untitled Quiz" ELSE "New Quiz"

MsgEmpty == "Gemini returned an empty response."
MsgParse == "Failed to parse Gemini response as JSON. The model may have returned invalid data."
MsgFormat == "Gemini response was not in the expected format."
MsgConvert == "Failed to convert PDF to MCQs. The document might be too large or the text might be unreadable."
MsgNoText(b) == IF b = "strict" THEN "No readable text found in the PDF."
                ELSE "Could not read enough text from this PDF."
MsgNoQuestions(b) == IF b = "strict" THEN "No questions identified."
                     ELSE "No study material could be processed."
MsgBadFile(b) == IF b = "strict" THEN "Please upload a valid PDF file."
                 ELSE "Please provide a valid PDF file."
MsgNoMatch == "No questions match the filter."
MsgPdfFailed == "pdf.js: invalid PDF structure"

\* The records a backend reply is built from (confidence in percent).  The
\* request declares all six fields required (responseSchema), so a reply
\* record carries each of them.  To keep the state space small a record
\* offers a single option text, a different one in each record: the first
\* record is answerable, the second carries the two sentinels and a low
\* confidence.
BackendRecords ==
  { [question |-> "Q1", options |-> <<"A">>, correctAnswer |-> "A",
     explanation |-> "E", pageNumber |-> 1, confidence |-> 90],
    [question |-> "Q2", options |-> <<"B">>, correctAnswer |-> AnswerSentinel,
     explanation |-> "Explanation not found in PDF", pageNumber |-> 2,
     confidence |-> 50] }

\* every option text a question can carry
OptionTexts == UNION {{r.options[k] : k \in 1..Len(r.options)} : r \in BackendRecords}

BackendTitles == {NULL, "", "T"}
\* data.questions: absent, present but not an array, or an array
BackendQuestionValues ==
  {[kind |-> "absent"], [kind |-> "other"]}
    \cup {[kind |-> "array", items |-> s] : s \in SeqsUpTo(BackendRecords, MaxQ)}
BackendDocuments ==
  {[json |-> TRUE, title |-> t, questions |-> q] :
     t \in BackendTitles, q \in BackendQuestionValues}
BackendBodies == {[json |-> FALSE]} \cup BackendDocuments
Fences == {"none", "plain", "json"}
\* response.text: empty/undefined, or a text
BackendTexts ==
  {[kind |-> "empty"]}
    \cup {[kind |-> "text", lead |-> l, fence |-> f, body |-> b] :
            l \in BOOLEAN, f \in Fences, b \in BackendBodies}

\* The replies the session specification Spec draws from: the reply {} and,
\* for each length 1..MaxQ, one document, the shortest one titled.
AnswerableRecord == CHOOSE r \in BackendRecords : r.correctAnswer # AnswerSentinel
SentinelRecord == CHOOSE r \in BackendRecords : r.correctAnswer = AnswerSentinel
SampleRecords(n) == [i \in 1..n |-> IF i % 2 = 1 THEN AnswerableRecord ELSE SentinelRecord]
SampleTexts ==
  { [kind |-> "text", lead |-> FALSE, fence |-> "none",
     body |-> [json |-> TRUE, title |-> NULL, questions |-> [kind |-> "absent"]]] }
  \cup { [kind |-> "text", lead |-> FALSE, fence |-> "none",
          body |-> [json |-> TRUE, title |-> IF n = 1 THEN "T" ELSE NULL,
                    questions |-> [kind |-> "array", items |-> SampleRecords(n)]]] :
          n \in 1..MaxQ }

\* The client does not validate the records of a reply: a record that
\* brings an id of its own and lacks most of the declared fields, and a
\* reply that carries it in front of a complete record.
UnderSpecifiedRecord == [id |-> "id-from-backend", question |-> "Q4"]
UnderSpecifiedTexts ==
  {[kind |-> "text", lead |-> FALSE, fence |-> "none",
    body |-> [json |-> TRUE, title |-> "T",
              questions |-> [kind |-> "array",
                             items |-> <<UnderSpecifiedRecord, AnswerableRecord>>]]]}
ReplyTexts == BackendTexts \cup UnderSpecifiedTexts

\* String.prototype.trim
Trim(text) == [text EXCEPT !.lead = FALSE]
\* text.startsWith(fence marker) on a trimmed text
StartsWithFence(text) == ~text.lead /\ text.fence # "none"
\* the two replace calls that drop the leading and the trailing fence marker
StripFence(text) == [text EXCEPT !.fence = "none"]
\* JSON.parse: a SyntaxError unless the text is a bare JSON document
\* (surrounding whitespace is accepted by JSON.parse)
JSONparses(text) == text.fence = "none" /\ text.body.json

Fail(msg) == [ok |-> FALSE, message |-> msg]

\* Faulty variant of AssignIds: records without a correctAnswer are dropped
AssignIdsToComplete(recs, t) ==
  LET complete == SelectSeqBy(recs, {i \in 1..Len(recs) :
                                       "correctAnswer" \in DOMAIN recs[i]})
  IN [i \in 1..Len(complete) |->
        [f \in DOMAIN complete[i] \cup {"id"} |->
           IF f = "id" THEN <<i - 1, t>> ELSE complete[i][f]]]

\* data.questions.map((q, index) => ({ ...q, id: q-index-Date.now() })):
\* every field of the record is copied, then id is set
AssignIds(recs, t) ==
  [i \in 1..Len(recs) |->
     [f \in DOMAIN recs[i] \cup {"id"} |-> IF f = "id" THEN <<i - 1, t>> ELSE recs[i][f]]]

\* Faulty variant of TitleOrDefault: data.title ?? fallback
TitleOrDefaultNullish(b, title) == IF title = NULL THEN DefaultTitle(b) ELSE title

\* data.title || fallback
TitleOrDefault(b, title) == IF title = NULL \/ title = "" THEN DefaultTitle(b) ELSE title

\* the text handed to JSON.parse
CleanedText(b, text) ==
  IF b = "strict" /\ StartsWithFence(Trim(text)) THEN StripFence(Trim(text))
  ELSE Trim(text)

\* extractMCQsFromText, from the point the backend call has returned text
\* at clock reading t.  The augmented client replaces every error by one
\* fixed message.
extractMCQsFromText(b, text, t) ==
  LET strictResult ==
        IF text.kind = "empty" THEN Fail(MsgEmpty)
        ELSE LET cleaned == CleanedText(b, text)
             IN IF ~JSONparses(cleaned) THEN Fail(MsgParse)
                ELSE IF cleaned.body.questions.kind # "array"
                     THEN Fail(MsgFormat)
                     ELSE [ok |-> TRUE,
                           title |-> TitleOrDefault(b, cleaned.body.title),
                           questions |-> AssignIds(cleaned.body.questions.items, t)]
  IN IF b = "strict" \/ strictResult.ok THEN strictResult ELSE Fail(MsgConvert)

\* ------------------------------------------------------------ PDF texts
\* extractTextFromPdf yields the marker-delimited text; the App only looks
\* at its length (augmented) or at the length left after removing the page
\* markers and trimming (strict).
PdfTexts ==
  { [len |-> 0, stripped |-> 0],      \* no pages
    [len |-> 51, stripped |-> 0],     \* three pages without any text
    [len |-> 40, stripped |-> 23],    \* one page, 23 characters
    [len |-> 120, stripped |-> 100] } \* one page, 100 characters

\* the check after await extractTextFromPdf(file)
TextUnreadable(b, text) ==
  IF b = "strict" THEN text.len = 0 \/ text.stripped < MinStrippedTextLen
  ELSE text.len = 0 \/ text.len < MinTextLen

\* ------------------------------------------------------------ persistence
\* JSON.stringify / JSON.parse of the values the App stores: a stored item
\* is the document it was written from; getItem of a missing key is null.
\* A slot can also hold a text that is no JSON document (written by
\* something other than the two effects): JSON.parse throws on it.
NoItem == [present |-> FALSE]
CorruptItem == [present |-> TRUE, text |-> "{\"questions\":[{"]
JSONstringify(value) == [present |-> TRUE, json |-> value]
Decodable(item) == "json" \in DOMAIN item
JSONparse(item) == item.json

Snapshot(qs, title, st) ==
  [questions |-> qs, title |-> title,
   progress |-> [currentQuestionIndex |-> st.currentQuestionIndex,
                 userAnswers |-> st.userAnswers,
                 isFinished |-> st.isFinished]]

\* Faulty variant of PersistEffects: the quiz effect lacks isFinished
\* among its dependencies and so does not run when only that flag changes
PersistEffectsMissingFinished(store, qs, title, st, atts) ==
  [quiz |-> IF Len(qs) > 0 /\ ~st.isFinished
            THEN JSONstringify(Snapshot(qs, title, st)) ELSE store.quiz,
   history |-> JSONstringify(atts)]

\* The two persistence effects, run after the render that follows a
\* handler: store is localStorage as the handler left it.  The quiz
\* effect writes only while questions is non-empty; the history effect
\* writes the attempts.
PersistEffects(store, qs, title, st, atts) ==
  [quiz |-> IF Len(qs) > 0 THEN JSONstringify(Snapshot(qs, title, st)) ELSE store.quiz,
   history |-> JSONstringify(atts)]

\* Faulty variant of FreshSession: the literal starts on the last question
\* and is already finished
FreshSessionAtEnd(qs) ==
  [questions |-> qs, currentQuestionIndex |-> IF Len(qs) > 0 THEN Len(qs) - 1 ELSE 0,
   userAnswers |-> EmptyAnswers, isFinished |-> TRUE]

\* the QuizState literal of a fresh session
FreshSession(qs) ==
  [questions |-> qs, currentQuestionIndex |-> 0,
   userAnswers |-> EmptyAnswers, isFinished |-> FALSE]

\* parsed.progress?.field ?? fallback
ProgressOr(parsed, field, fallback) ==
  IF "progress" \in DOMAIN parsed THEN parsed.progress[field] ELSE fallback

\* the initial-load effect: QuizState restored from the quiz slot
RestoredSession(parsed) ==
  [questions |-> parsed.questions,
   currentQuestionIndex |-> ProgressOr(parsed, "currentQuestionIndex", 0),
   userAnswers |-> ProgressOr(parsed, "userAnswers", EmptyAnswers),
   isFinished |-> ProgressOr(parsed, "isFinished", FALSE)]

\* parsed.title || the initial quiz name
TitleOrInitial(b, title) == IF title = NULL \/ title = "" THEN InitialQuizName(b) ELSE title

\* Does the initial-load effect restore from this slot content?  The read
\* is wrapped in try/catch: a text that does not parse is logged and skipped.
Restorable(item) ==
  /\ item.present
  /\ Decodable(item)
  /\ "questions" \in DOMAIN JSONparse(item)
  /\ Len(JSONparse(item).questions) > 0

\* What the initial-load effect makes of the quiz slot: the master
\* questions, the title and the session.
LoadedQuiz(b, item) ==
  IF Restorable(item)
  THEN LET parsed == JSONparse(item)
       IN [questions |-> parsed.questions,
           title |-> TitleOrInitial(b, IF "title" \in DOMAIN parsed THEN parsed.title
                                       ELSE NULL),
           session |-> RestoredSession(parsed)]
  ELSE [questions |-> <<>>, title |-> InitialQuizName(b), session |-> FreshSession(<<>>)]

\* Faulty variant of downloadQuizData: the title is left out of the export
downloadQuizDataUntitled(title, qs) == JSONstringify([questions |-> qs])

\* downloadQuizData (augmented App): the document offered for download
downloadQuizData(title, qs) == JSONstringify([title |-> title, questions |-> qs])

\* Does the construction of the App throw on this localStorage?  The
\* initialiser of attempts calls JSON.parse on the history slot outside any
\* try/catch.
StartupThrows(store) == store.history.present /\ ~Decodable(store.history)

\* --------------------------------------------------------- derived values
\* const currentQuestion = quizState.questions[quizState.currentQuestionIndex]
HasCurrent(st) ==
  st.currentQuestionIndex >= 0 /\ st.currentQuestionIndex < Len(st.questions)
CurrentQuestion(st) == st.questions[st.currentQuestionIndex + 1]

\* const hasAnsweredCurrent = currentQuestion ? !!userAnswers[currentQuestion.id] : false
hasAnsweredCurrent(st) ==
  HasCurrent(st) /\ AnswerOf(st.userAnswers, CurrentQuestion(st).id) # NULL

\* the condition under which the quiz screen is rendered
QuizShown ==
  /\ mode = "QUIZ"
  /\ IF build = "strict" THEN Len(quizState.questions) > 0 ELSE Len(questions) > 0

\* The quiz screen reads currentQuestion.question: with no current question
\* the render throws and React unmounts the App; only a reload recovers.
RenderCrashed == QuizShown /\ ~HasCurrent(quizState)

\* the header buttons History / Edit / New PDF are rendered
HeaderNavShown == Len(questions) > 0 /\ mode # "EXTRACTING"

\* Faulty variant of ConfirmShown: the guard without the test of the committed answer
ConfirmShownWhenPending == pendingAnswer # NULL

\* the Confirm button is rendered instead of the Next button
ConfirmShown == pendingAnswer # NULL /\ ~hasAnsweredCurrent(quizState)

\* --------------------------------------------------------------- scoring
\* Faulty variant of CorrectCount: counts the answered questions
AnsweredCount(qs, answers) ==
  Len(SelectSeqBy(qs, {i \in 1..Len(qs) : AnswerOf(answers, qs[i].id) # NULL}))

\* quizState.questions.filter(q => userAnswers[q.id] === q.correctAnswer).length
CorrectCount(qs, answers) ==
  Len(SelectSeqBy(qs, {i \in 1..Len(qs) :
                         AnswerOf(answers, qs[i].id) = qs[i].correctAnswer}))

\* the Attempt literal of finishQuiz
NewAttempt(st, t) ==
  [id |-> t, timestamp |-> t,
   score |-> CorrectCount(st.questions, st.userAnswers),
   total |-> Len(st.questions)]

\* Faulty variant of PrependAttempt: the oldest attempt is dropped
PrependAttemptDroppingOldest(attempt, prev) ==
  <<attempt>> \o SubSeq(prev, 1, Len(prev) - 1)

\* Faulty variant of PrependAttempt: the new attempt goes to the end
AppendAttempt(attempt, prev) == prev \o <<attempt>>

\* setAttempts(prev => [newAttempt, ...prev])
PrependAttempt(attempt, prev) == <<attempt>> \o prev

\* the score the results screen derives from the session
ResultsScore(st) == CorrectCount(st.questions, st.userAnswers)

\* the total the results screen shows: the length of the session questions
\* (strict), of the master questions (augmented)
ResultsTotal(b, st, qs) == IF b = "strict" THEN Len(st.questions) ELSE Len(qs)

\* ---------------------------------------------------------------- retake
\* Faulty variant of RetakeFilter: incorrect keeps only the questions answered
\* wrongly and drops the unanswered ones
RetakeFilterAnsweredWrong(b, filter, qs, answers) ==
  IF filter = "incorrect"
  THEN SelectSeqBy(qs, {i \in 1..Len(qs) :
                          /\ AnswerOf(answers, qs[i].id) # NULL
                          /\ AnswerOf(answers, qs[i].id) # qs[i].correctAnswer})
  ELSE IF filter = "low-confidence" /\ b = "strict"
  THEN SelectSeqBy(qs, {i \in 1..Len(qs) : qs[i].confidence < LowConfidencePct})
  ELSE qs

\* the filter of resetQuiz over the master questions
RetakeFilter(b, filter, qs, answers) ==
  IF filter = "incorrect"
  THEN SelectSeqBy(qs, {i \in 1..Len(qs) :
                          AnswerOf(answers, qs[i].id) # qs[i].correctAnswer})
  ELSE IF filter = "low-confidence" /\ b = "strict"
  THEN SelectSeqBy(qs, {i \in 1..Len(qs) : qs[i].confidence < LowConfidencePct})
  ELSE qs

\* the values the parameter of resetQuiz admits
RetakeModes(b) ==
  IF b = "strict" THEN {"all", "incorrect", "low-confidence"} ELSE {"all", "incorrect"}

\* the filters a button of the results screen passes to resetQuiz
RetakeButtons == {"all", "incorrect"}

\* ------------------------------------------------------------ correction
\* { ...q, ...updated }
Merge(q, updated) ==
  [f \in DOMAIN q |-> IF f \in DOMAIN updated THEN updated[f] ELSE q[f]]

\* Faulty variant of ApplyEdit: the id is not compared, every record takes
\* the update
ApplyEditToAll(qs, id, updated) ==
  [i \in 1..Len(qs) |-> Merge(qs[i], updated)]

\* qs.map(q => q.id === id ? { ...q, ...updated } : q)
ApplyEdit(qs, id, updated) ==
  [i \in 1..Len(qs) |-> IF qs[i].id = id THEN Merge(qs[i], updated) ELSE qs[i]]

\* the edits the Admin screen can issue for record q
AdminEdits(q) ==
  {[correctAnswer |-> q.options[k]] : k \in 1..Len(q.options)}

\* ---------------------------------------------------------- confirmation
\* Faulty variant of handleConfirmAnswer: the spread of prev.userAnswers is missing
handleConfirmAnswerAlone(st, pending) ==
  IF pending # NULL
  THEN [quizState |-> [st EXCEPT !.userAnswers =
                         WithAnswer(EmptyAnswers, CurrentQuestion(st).id, pending)],
        pendingAnswer |-> NULL]
  ELSE [quizState |-> st, pendingAnswer |-> pending]

\* handleConfirmAnswer on the rendered state
handleConfirmAnswer(st, pending) ==
  IF pending # NULL
  THEN [quizState |-> [st EXCEPT !.userAnswers =
                         WithAnswer(st.userAnswers, CurrentQuestion(st).id, pending)],
        pendingAnswer |-> NULL]
  ELSE [quizState |-> st, pendingAnswer |-> pending]

\* ------------------------------------------------------ in-flight uploads
NoResult == [title |-> NULL, questions |-> <<>>]
RemoveAt(s, i) == SubSeq(s, 1, i - 1) \o SubSeq(s, i + 1, Len(s))
\* a newly started upload supersedes every upload still in flight
Supersede(s) == [i \in 1..Len(s) |-> [s[i] EXCEPT !.superseded = TRUE]]
Files == {"none", "text/plain", "application/pdf"}

\* ------------------------------------------------------------------ Init
\* First start on an empty localStorage: nothing to restore, and the
\* history effect of the first render writes the empty ledger.
Init ==
  /\ build \in Builds
  /\ now = 0
  /\ mode = "UPLOAD"
  /\ questions = <<>>
  /\ quizName = InitialQuizName(build)
  /\ quizState = FreshSession(<<>>)
  /\ attempts = <<>>
  /\ pendingAnswer = NULL
  /\ error = NULL
  /\ storage = PersistEffects([quiz |-> NoItem, history |-> NoItem],
                              <<>>, InitialQuizName(build), FreshSession(<<>>), <<>>)
  /\ uploads = <<>>

\* --------------------------------------------------------------- actions
\* Date.now() advances
Tick ==
  /\ now < MaxNow
  /\ now' = now + 1
  /\ UNCHANGED <<build, mode, questions, quizName, quizState, attempts,
                 pendingAnswer, error, storage, uploads>>

\* a handler that only calls setMode(m)
SetModeOnly(m) ==
  /\ ~RenderCrashed
  /\ mode' = m
  /\ UNCHANGED <<build, now, questions, quizName, quizState, attempts,
                 pendingAnswer, error, storage, uploads>>

\* logo, Home, New PDF, close of the progress screen, Back to Dashboard,
\* Finish Edits (augmented): setMode(AppMode.UPLOAD)
GoHome == SetModeOnly("UPLOAD")

\* History button of the header or of the upload screen, Progress Chart
\* button of the results screen (strict)
OpenProgress ==
  /\ HeaderNavShown \/ (build = "strict" /\ mode = "RESULTS")
  /\ SetModeOnly("PROGRESS")

\* Edit button of the header, pen button of the upload screen (augmented)
OpenAdmin ==
  /\ HeaderNavShown
  /\ SetModeOnly("ADMIN")

\* Faulty variant of ContinueQuiz: the finished flag is not consulted
ContinueQuizIgnoringFinished ==
  /\ \/ mode = "UPLOAD" /\ Len(questions) > 0
     \/ build = "strict" /\ mode = "ADMIN"
  /\ SetModeOnly("QUIZ")

\* Continue Quiz / View Results of the upload screen, Save & Return of the
\* Admin screen (strict): setMode(isFinished ? RESULTS : QUIZ)
ContinueQuiz ==
  /\ \/ mode = "UPLOAD" /\ Len(questions) > 0
     \/ build = "strict" /\ mode = "ADMIN"
  /\ SetModeOnly(IF quizState.isFinished THEN "RESULTS" ELSE "QUIZ")

\* Start Now of the empty progress screen (strict): setMode(AppMode.QUIZ)
StartNow ==
  /\ build = "strict"
  /\ mode = "PROGRESS"
  /\ attempts = <<>>
  /\ SetModeOnly("QUIZ")

\* the close button of the error banner: setError(null)
DismissError ==
  /\ ~RenderCrashed
  /\ error # NULL
  /\ error' = NULL
  /\ UNCHANGED <<build, now, mode, questions, quizName, quizState, attempts,
                 pendingAnswer, storage, uploads>>

\* clearAllData with the confirm dialog accepted.  Rendered on the upload
\* screen while a quiz exists (strict) or under a non-empty history list
\* (augmented).
clearAllData ==
  /\ ~RenderCrashed
  /\ IF build = "strict" THEN mode = "UPLOAD" /\ Len(questions) > 0
     ELSE mode = "PROGRESS" /\ Len(attempts) > 0
  /\ questions' = <<>>
  /\ attempts' = <<>>
  /\ quizName' = InitialQuizName(build)
  /\ quizState' = FreshSession(<<>>)
  /\ mode' = "UPLOAD"
  /\ storage' = PersistEffects([quiz |-> NoItem, history |-> NoItem],
                               questions', quizName', quizState', attempts')
  /\ UNCHANGED <<build, now, pendingAnswer, error, uploads>>

\* handleFileUpload up to its first await
handleFileUpload(file, limit) ==
  /\ ~RenderCrashed
  /\ mode = "UPLOAD"
  /\ IF file # "application/pdf"
     THEN /\ error' = MsgBadFile(build)
          /\ UNCHANGED <<mode, uploads>>
     ELSE /\ Len(uploads) < limit
          /\ error' = NULL
          /\ mode' = "EXTRACTING"
          /\ uploads' = Append(Supersede(uploads),
                               [pc |-> "pdf", superseded |-> FALSE, result |-> NoResult])
  /\ UNCHANGED <<build, now, questions, quizName, quizState, attempts,
                 pendingAnswer, storage>>

\* Faulty variant of UploadFails: the catch block also drops the session
UploadFailsDroppingSession(i, msg) ==
  /\ error' = msg
  /\ mode' = "UPLOAD"
  /\ uploads' = RemoveAt(uploads, i)
  /\ quizState' = FreshSession(<<>>)
  /\ UNCHANGED <<build, now, questions, quizName, attempts, pendingAnswer, storage>>

\* the catch block of handleFileUpload, ending invocation i
UploadFails(i, msg) ==
  /\ error' = msg
  /\ mode' = "UPLOAD"
  /\ uploads' = RemoveAt(uploads, i)
  /\ UNCHANGED <<build, now, questions, quizName, quizState, attempts,
                 pendingAnswer, storage>>

UploadAdvances(i, pc, result) ==
  /\ uploads' = [uploads EXCEPT ![i] = [@ EXCEPT !.pc = pc, !.result = result]]
  /\ UNCHANGED <<build, now, mode, questions, quizName, quizState, attempts,
                 pendingAnswer, error, storage>>

\* await extractTextFromPdf(file) settles: rejected, or resolved with text
PdfSettles(i, rejected, text) ==
  /\ ~RenderCrashed
  /\ uploads[i].pc = "pdf"
  /\ IF rejected THEN UploadFails(i, MsgPdfFailed)
     ELSE IF TextUnreadable(build, text) THEN UploadFails(i, MsgNoText(build))
     ELSE UploadAdvances(i, "gemini", NoResult)

\* await extractMCQsFromText(text) settles, the backend having returned
\* response.text = text
GeminiSettles(i, text) ==
  /\ ~RenderCrashed
  /\ uploads[i].pc = "gemini"
  /\ LET r == extractMCQsFromText(build, text, now)
     IN IF ~r.ok THEN UploadFails(i, r.message)
        ELSE IF Len(r.questions) = 0 THEN UploadFails(i, MsgNoQuestions(build))
        ELSE UploadAdvances(i, "t600", [title |-> r.title, questions |-> r.questions])

\* the 600 ms timer fires: the result is installed
InstallResult(i) ==
  /\ ~RenderCrashed
  /\ uploads[i].pc = "t600"
  /\ quizName' = uploads[i].result.title
  /\ questions' = uploads[i].result.questions
  /\ attempts' = IF build = "strict" THEN <<>> ELSE attempts
  /\ quizState' = FreshSession(uploads[i].result.questions)
  /\ uploads' = [uploads EXCEPT ![i] = [@ EXCEPT !.pc = "t800", !.result = NoResult]]
  /\ storage' = PersistEffects(storage, questions', quizName', quizState', attempts')
  /\ UNCHANGED <<build, now, mode, pendingAnswer, error>>

\* Faulty variant of EnterQuiz: the invocation ends without setMode
EnterQuizWithoutSetMode(i) ==
  /\ ~RenderCrashed
  /\ uploads[i].pc = "t800"
  /\ uploads' = RemoveAt(uploads, i)
  /\ UNCHANGED <<build, now, mode, questions, quizName, quizState, attempts,
                 pendingAnswer, error, storage>>

\* the 800 ms timer fires: setMode(AppMode.QUIZ), the invocation ends
EnterQuiz(i) ==
  /\ ~RenderCrashed
  /\ uploads[i].pc = "t800"
  /\ mode' = "QUIZ"
  /\ uploads' = RemoveAt(uploads, i)
  /\ UNCHANGED <<build, now, questions, quizName, quizState, attempts,
                 pendingAnswer, error, storage>>

\* a handler of the quiz screen that changes quizState and pendingAnswer
QuizUpdate(st, pending) ==
  /\ quizState' = st
  /\ pendingAnswer' = pending
  /\ storage' = PersistEffects(storage, questions, quizName, st, attempts)
  /\ UNCHANGED <<build, now, mode, questions, quizName, attempts, error, uploads>>

\* click on an option button (disabled once the question is answered)
SelectOption(option) ==
  /\ QuizShown /\ HasCurrent(quizState)
  /\ ~hasAnsweredCurrent(quizState)
  /\ \E k \in 1..Len(CurrentQuestion(quizState).options) :
       option = CurrentQuestion(quizState).options[k]
  /\ QuizUpdate(quizState, option)

\* click on Confirm
ConfirmAnswer ==
  /\ QuizShown /\ HasCurrent(quizState)
  /\ ConfirmShown
  /\ LET r == handleConfirmAnswer(quizState, pendingAnswer)
     IN QuizUpdate(r.quizState, r.pendingAnswer)

\* pendingAnswer after a click in the question list: jumpToQuestion (strict)
\* clears it, the inline handler (augmented) only sets the index
PendingAfterJump(b, pending) == IF b = "strict" THEN NULL ELSE pending

\* Faulty variant of JumpTo: a button is offered for every index up to
\* MaxQ - 1, whatever the length of the session
JumpToAnyIndex(idx) ==
  /\ QuizShown /\ HasCurrent(quizState)
  /\ QuizUpdate([quizState EXCEPT !.currentQuestionIndex = idx],
                PendingAfterJump(build, pendingAnswer))

\* click on entry idx of the question list
JumpTo(idx) ==
  /\ QuizShown /\ HasCurrent(quizState)
  /\ idx \in 0..(Len(quizState.questions) - 1)
  /\ QuizUpdate([quizState EXCEPT !.currentQuestionIndex = idx],
                PendingAfterJump(build, pendingAnswer))

\* pendingAnswer after Previous: goToPrev (strict) clears it, the inline
\* handler (augmented) only sets the index
PendingAfterPrev(b, pending) == IF b = "strict" THEN NULL ELSE pending

\* the index Previous moves to (the button is disabled at index 0)
PrevIndex(idx) == IF idx - 1 > 0 THEN idx - 1 ELSE 0

\* click on Previous
GoToPrev ==
  /\ QuizShown /\ HasCurrent(quizState)
  /\ quizState.currentQuestionIndex # 0
  /\ QuizUpdate([quizState EXCEPT !.currentQuestionIndex = PrevIndex(@)],
                PendingAfterPrev(build, pendingAnswer))

\* finishQuiz
finishQuiz ==
  /\ Len(attempts) < MaxAttempts
  /\ attempts' = PrependAttempt(NewAttempt(quizState, now), attempts)
  /\ mode' = "RESULTS"
  /\ quizState' = [quizState EXCEPT !.isFinished = TRUE]
  /\ storage' = PersistEffects(storage, questions, quizName, quizState', attempts')
  /\ UNCHANGED <<build, now, questions, quizName, pendingAnswer, error, uploads>>

\* Faulty variant of NextAdvances: the last index is taken from the master
\* questions instead of the session questions
NextAdvancesOverMaster(st) == st.currentQuestionIndex < Len(questions) - 1

\* Faulty variant of NextAdvances: the comparison against length instead of length - 1
NextAdvancesPastEnd(st) == st.currentQuestionIndex < Len(st.questions)

\* does goToNext advance (rather than finish)?
NextAdvances(st) == st.currentQuestionIndex < Len(st.questions) - 1

\* click on Next / Skip / Finish (rendered when Confirm is not)
GoToNext ==
  /\ QuizShown /\ HasCurrent(quizState)
  /\ ~ConfirmShown
  /\ IF NextAdvances(quizState)
     THEN QuizUpdate([quizState EXCEPT !.currentQuestionIndex = @ + 1], NULL)
     ELSE finishQuiz

\* click on Submit Score / End Session
SubmitScore ==
  /\ QuizShown /\ HasCurrent(quizState)
  /\ finishQuiz

\* error after resetQuiz found no question: setError(...) and return
\* (strict), a bare return (augmented)
ErrorAfterEmptyRetake(b, err) == IF b = "strict" THEN MsgNoMatch ELSE err

\* Faulty variant of resetQuiz: the new session keeps the answers of the old one
resetQuizKeepingAnswers(filter) ==
  /\ ~RenderCrashed
  /\ mode = "RESULTS"
  /\ LET newQuestions == RetakeFilter(build, filter, questions, quizState.userAnswers)
     IN IF Len(newQuestions) = 0
        THEN /\ error' = IF build = "strict" THEN MsgNoMatch ELSE error
             /\ UNCHANGED <<mode, quizState, pendingAnswer, storage>>
        ELSE /\ quizState' = [FreshSession(newQuestions) EXCEPT
                                !.userAnswers = quizState.userAnswers]
             /\ pendingAnswer' = NULL
             /\ mode' = "QUIZ"
             /\ storage' = PersistEffects(storage, questions, quizName, quizState', attempts)
             /\ UNCHANGED error
  /\ UNCHANGED <<build, now, questions, quizName, attempts, uploads>>

\* Faulty variant of resetQuiz: an empty filter result starts a session too
resetQuizStartingEmpty(filter) ==
  /\ ~RenderCrashed
  /\ mode = "RESULTS"
  /\ quizState' = FreshSession(RetakeFilter(build, filter, questions, quizState.userAnswers))
  /\ pendingAnswer' = NULL
  /\ mode' = "QUIZ"
  /\ storage' = PersistEffects(storage, questions, quizName, quizState', attempts)
  /\ UNCHANGED <<build, now, questions, quizName, attempts, error, uploads>>

\* resetQuiz(filter), from a button of the results screen
resetQuiz(filter) ==
  /\ ~RenderCrashed
  /\ mode = "RESULTS"
  /\ LET newQuestions == RetakeFilter(build, filter, questions, quizState.userAnswers)
     IN IF Len(newQuestions) = 0
        THEN /\ error' = ErrorAfterEmptyRetake(build, error)
             /\ UNCHANGED <<mode, quizState, pendingAnswer, storage>>
        ELSE /\ quizState' = FreshSession(newQuestions)
             /\ pendingAnswer' = NULL
             /\ mode' = "QUIZ"
             /\ storage' = PersistEffects(storage, questions, quizName, quizState', attempts)
             /\ UNCHANGED error
  /\ UNCHANGED <<build, now, questions, quizName, attempts, uploads>>

\* Faulty variant of saveEditedQuestion: the newest attempt is rescored
\* against the edited records
saveEditedQuestionRescoring(id, updated) ==
  /\ ~RenderCrashed
  /\ mode = "ADMIN"
  /\ questions' = ApplyEdit(questions, id, updated)
  /\ quizState' = [quizState EXCEPT !.questions = ApplyEdit(@, id, updated)]
  /\ attempts' = IF attempts = <<>> THEN attempts
                 ELSE [attempts EXCEPT ![1].score =
                         CorrectCount(quizState'.questions, quizState.userAnswers)]
  /\ storage' = PersistEffects(storage, questions', quizName, quizState', attempts')
  /\ UNCHANGED <<build, now, mode, quizName, pendingAnswer, error, uploads>>

\* Faulty variant of saveEditedQuestion: only the master list is updated
saveEditedQuestionMasterOnly(id, updated) ==
  /\ ~RenderCrashed
  /\ mode = "ADMIN"
  /\ questions' = ApplyEdit(questions, id, updated)
  /\ storage' = PersistEffects(storage, questions', quizName, quizState, attempts)
  /\ UNCHANGED <<build, now, mode, quizName, quizState, attempts, pendingAnswer,
                 error, uploads>>

\* saveEditedQuestion(id, updated), from an input of the Admin screen
saveEditedQuestion(id, updated) ==
  /\ ~RenderCrashed
  /\ mode = "ADMIN"
  /\ questions' = ApplyEdit(questions, id, updated)
  /\ quizState' = [quizState EXCEPT !.questions = ApplyEdit(@, id, updated)]
  /\ storage' = PersistEffects(storage, questions', quizName, quizState', attempts)
  /\ UNCHANGED <<build, now, mode, quizName, attempts, pendingAnswer, error, uploads>>

\* The page is reloaded: the App is constructed again from localStorage and
\* whatever was in flight is gone.
Reload ==
  /\ pendingAnswer' = NULL
  /\ error' = NULL
  /\ uploads' = <<>>
  /\ IF StartupThrows(storage)
     THEN \* the first render throws: nothing is mounted, no effect runs
          /\ mode' = Unmounted
          /\ attempts' = <<>>
          /\ questions' = <<>>
          /\ quizName' = InitialQuizName(build)
          /\ quizState' = FreshSession(<<>>)
          /\ storage' = storage
     ELSE /\ mode' = "UPLOAD"
          /\ attempts' = IF storage.history.present THEN JSONparse(storage.history)
                         ELSE <<>>
          /\ questions' = LoadedQuiz(build, storage.quiz).questions
          /\ quizName' = LoadedQuiz(build, storage.quiz).title
          /\ quizState' = LoadedQuiz(build, storage.quiz).session
          /\ storage' = PersistEffects(storage, questions', quizName', quizState',
                                       attempts')
  /\ UNCHANGED <<build, now>>

\* --------------------------------------------------------- specifications
\* The session specification: one upload at a time, the clock standing
\* still, every screen of the App.
Next ==
  \/ GoHome
  \/ OpenProgress
  \/ OpenAdmin
  \/ ContinueQuiz
  \/ StartNow
  \/ DismissError
  \/ clearAllData
  \/ \E file \in Files : handleFileUpload(file, 1)
  \/ \E i \in 1..Len(uploads) : \E text \in PdfTexts : PdfSettles(i, FALSE, text)
  \/ \E i \in 1..Len(uploads) : \E text \in SampleTexts : GeminiSettles(i, text)
  \/ \E i \in 1..Len(uploads) : InstallResult(i)
  \/ \E i \in 1..Len(uploads) : EnterQuiz(i)
  \/ \E option \in OptionTexts : SelectOption(option)
  \/ ConfirmAnswer
  \/ \E idx \in 0..(MaxQ - 1) : JumpTo(idx)
  \/ GoToPrev
  \/ GoToNext
  \/ SubmitScore
  \/ \E filter \in RetakeButtons : resetQuiz(filter)
  \/ \E i \in 1..Len(questions) : \E u \in AdminEdits(questions[i]) :
       saveEditedQuestion(questions[i].id, u)
  \/ Reload

Spec == Init /\ [][Next]_vars

\* The race specification: up to MaxInFlight overlapping uploads, a running
\* clock, every reply of the backend; of the screens only the upload screen.
NextRace ==
  \/ Tick
  \/ GoHome
  \/ \E file \in Files : handleFileUpload(file, MaxInFlight)
  \/ \E i \in 1..Len(uploads) : \E rejected \in BOOLEAN : \E text \in PdfTexts :
       PdfSettles(i, rejected, text)
  \/ \E i \in 1..Len(uploads) : \E text \in BackendTexts : GeminiSettles(i, text)
  \/ \E i \in 1..Len(uploads) : InstallResult(i)
  \/ \E i \in 1..Len(uploads) : EnterQuiz(i)

SpecRace == Init /\ [][NextRace]_vars

\* The extraction specification: one upload at a time on a running clock,
\* every reply of the backend, the under-specified reply included; of the
\* screens only the upload screen.
NextExtract ==
  \/ Tick
  \/ GoHome
  \/ \E file \in Files : handleFileUpload(file, 1)
  \/ \E i \in 1..Len(uploads) : \E text \in PdfTexts : PdfSettles(i, FALSE, text)
  \/ \E i \in 1..Len(uploads) : \E text \in ReplyTexts : GeminiSettles(i, text)
  \/ \E i \in 1..Len(uploads) : InstallResult(i)
  \/ \E i \in 1..Len(uploads) : EnterQuiz(i)

SpecExtract == Init /\ [][NextExtract]_vars

\* The extraction specification with the scheduling the runtime gives: a
\* pending promise settles and a set timer fires, so a step of an upload in
\* flight cannot stay enabled forever without being taken.  Clicks of the
\* user are not forced.
UploadStep ==
  \E i \in 1..Len(uploads) :
    \/ \E text \in PdfTexts : PdfSettles(i, FALSE, text)
    \/ \E text \in ReplyTexts : GeminiSettles(i, text)
    \/ InstallResult(i)
    \/ EnterQuiz(i)

SpecExtractFair == Init /\ [][NextExtract]_vars /\ WF_vars(UploadStep)

\* The retake specification: resetQuiz applied with every value its
\* parameter admits on the results screen of a finished session over the
\* whole master list, for every master list of up to MaxQ records and every
\* answer map of that session.
BoundaryRecord ==
  [question |-> "Q3", options |-> <<"A", "B">>, correctAnswer |-> "B",
   explanation |-> "E", pageNumber |-> 3, confidence |-> LowConfidencePct]
RetakeRecords == BackendRecords \cup {BoundaryRecord}

\* the userAnswers a session over qs can hold: some of the questions
\* answered, each with one of its options
AnswerMaps(qs) ==
  UNION {{a \in [D -> OptionTexts] :
            \A i \in 1..Len(qs) :
              qs[i].id \in D => \E k \in 1..Len(qs[i].options) : a[qs[i].id] = qs[i].options[k]} :
         D \in SUBSET Ids(qs)}

InitRetake ==
  /\ build \in Builds
  /\ now = 0
  /\ mode = "RESULTS"
  /\ \E recs \in SeqsUpTo(RetakeRecords, MaxQ) \ {<<>>} : questions = AssignIds(recs, 0)
  /\ quizName = DefaultTitle(build)
  /\ \E answers \in AnswerMaps(questions) :
       quizState = [questions |-> questions,
                    currentQuestionIndex |-> Len(questions) - 1,
                    userAnswers |-> answers, isFinished |-> TRUE]
  /\ attempts = <<NewAttempt(quizState, 0)>>
  /\ pendingAnswer = NULL
  /\ error = NULL
  /\ storage = PersistEffects([quiz |-> NoItem, history |-> NoItem],
                              questions, quizName, quizState, attempts)
  /\ uploads = <<>>

NextRetake == \E filter \in RetakeModes(build) : resetQuiz(filter)

SpecRetake == InitRetake /\ [][NextRetake]_vars

\* The correction specification: the Admin screen over a freshly installed
\* quiz, every master list of up to MaxQ well-formed records, and every
\* input of the screen: the correctAnswer select and the text inputs.
\* The texts typed into the inputs: one new question text, one new
\* explanation, and for an option any of the option texts.
AdminTextEdits(b, q) ==
  {[question |-> "Q edited"], [explanation |-> "E edited"]}
    \cup (IF b = "augmented"
          THEN {[options |-> [q.options EXCEPT ![k] = t]] :
                  k \in 1..Len(q.options), t \in OptionTexts}
          ELSE {})

InitAdmin ==
  /\ build \in Builds
  /\ now = 0
  /\ mode = "ADMIN"
  /\ \E recs \in SeqsUpTo(RetakeRecords, MaxQ) \ {<<>>} : questions = AssignIds(recs, 0)
  /\ quizName = DefaultTitle(build)
  /\ quizState = FreshSession(questions)
  /\ attempts = <<>>
  /\ pendingAnswer = NULL
  /\ error = NULL
  /\ storage = PersistEffects([quiz |-> NoItem, history |-> NoItem],
                              questions, quizName, quizState, attempts)
  /\ uploads = <<>>

NextAdmin ==
  \E i \in 1..Len(questions) :
    \E u \in AdminEdits(questions[i]) \cup AdminTextEdits(build, questions[i]) :
      saveEditedQuestion(questions[i].id, u)

SpecAdmin == InitAdmin /\ [][NextAdmin]_vars

\* The startup specification: the App has been constructed on an empty
\* localStorage and the two slots have since been written from outside it
\* (another tab of the same origin, an earlier revision of the App, the
\* developer tools, an exported file pasted into the slot); the page is
\* then reloaded.  The quiz slot holds nothing, a text that is no JSON, a
\* document without questions, an export, or a snapshot; the history slot
\* holds nothing, a text that is no JSON, or a ledger.
StoredTitles(b) == {InitialQuizName(b), "T", ""}
StoredQuestions == {AssignIds(SampleRecords(n), 0) : n \in 1..MaxQ}
StoredSessions(qs) ==
  {[questions |-> qs, currentQuestionIndex |-> idx, userAnswers |-> a, isFinished |-> f] :
     idx \in 0..(Len(qs) - 1), a \in AnswerMaps(qs), f \in BOOLEAN}
QuizSlotContents(b) ==
  {NoItem, CorruptItem, JSONstringify([title |-> "T"])}
    \cup {downloadQuizData(t, qs) : t \in StoredTitles(b) \ {""}, qs \in StoredQuestions}
    \cup UNION {{JSONstringify(Snapshot(qs, t, st)) : t \in StoredTitles(b),
                                                      st \in StoredSessions(qs)} :
                qs \in StoredQuestions}
HistorySlotContents(b) ==
  {NoItem, CorruptItem}
    \cup {JSONstringify(atts) :
            atts \in SeqsUpTo({NewAttempt(FreshSession(qs), 0) : qs \in StoredQuestions}, 1)}

InitStartup ==
  /\ build \in Builds
  /\ now = 0
  /\ mode = "UPLOAD"
  /\ questions = <<>>
  /\ quizName = InitialQuizName(build)
  /\ quizState = FreshSession(<<>>)
  /\ attempts = <<>>
  /\ pendingAnswer = NULL
  /\ error = NULL
  /\ storage \in [quiz : QuizSlotContents(build), history : HistorySlotContents(build)]
  /\ uploads = <<>>

NextStartup == Reload

SpecStartup == InitStartup /\ [][NextStartup]_vars

\* ---------------------------------------------------------------- claims
\* a call of finishQuiz: Submit Score / End Session, or Next on the last question
FinishCall == SubmitScore \/ (GoToNext /\ ~NextAdvances(quizState))

\* a step that replaces the session: an extraction installs its result, a
\* retake button finds questions, Reset Everything
SessionRecreated ==
  \/ \E i \in 1..Len(uploads) : InstallResult(i)
  \/ clearAllData
  \/ \E filter \in RetakeButtons :
       resetQuiz(filter) /\ Len(RetakeFilter(build, filter, questions, quizState.userAnswers)) > 0

\* C1: in every reachable state every key of quizState.userAnswers is the id
\* of a record of quizState.questions.
C1_AnswerKeysAreActiveIds ==
  DOMAIN quizState.userAnswers \subseteq Ids(quizState.questions)

\* C1 witness: an answer committed in a retake session that is shorter than
\* the master list.
C1_Witness ==
  /\ Len(quizState.questions) > 0
  /\ Len(quizState.questions) < Len(questions)
  /\ DOMAIN quizState.userAnswers # {}

\* C2: whenever quizState.questions is non-empty the current index lies in
\* 0 .. length - 1.
C2_IndexInRange ==
  Len(quizState.questions) > 0 =>
    /\ quizState.currentQuestionIndex >= 0
    /\ quizState.currentQuestionIndex < Len(quizState.questions)

\* C2 witness: the quiz screen stands on the last of several questions.
C2_Witness ==
  /\ mode = "QUIZ"
  /\ quizState.currentQuestionIndex > 0
  /\ quizState.currentQuestionIndex = Len(quizState.questions) - 1

\* C3: the result of an upload superseded by a later upload is never
\* installed: its 600 ms step leaves questions, quizName and quizState alone.
C3_SupersededNeverCommits ==
  [][\A i \in 1..Len(uploads) :
       (uploads[i].superseded /\ InstallResult(i)) =>
         UNCHANGED <<questions, quizName, quizState>>]_vars

C5_FinishFrame ==
  [][FinishCall =>
       /\ Len(attempts') = Len(attempts) + 1
       /\ \A k \in 1..Len(attempts) : attempts'[k + 1] = attempts[k]
       /\ quizState'.isFinished
       /\ mode' = "RESULTS"
       /\ quizState'.questions = quizState.questions
       /\ quizState'.userAnswers = quizState.userAnswers
       /\ quizState'.currentQuestionIndex = quizState.currentQuestionIndex]_vars

\* C5 witness: results with two different attempts in the ledger.
C5_Witness ==
  /\ mode = "RESULTS"
  /\ quizState.isFinished
  /\ Len(attempts) = 2
  /\ attempts[1] # attempts[2]

\* C6: once a session is finished no step appends another Attempt for it.
C6_OneAttemptPerSession ==
  [][quizState.isFinished => Len(attempts') <= Len(attempts)]_vars

\* C7: unless the step re-creates the session, every committed answer is
\* still there after the step, with the same value.
C7_CommittedAnswerStays ==
  [][~SessionRecreated =>
       \A id \in DOMAIN quizState.userAnswers :
         /\ id \in DOMAIN quizState'.userAnswers
         /\ quizState'.userAnswers[id] = quizState.userAnswers[id]]_vars

\* C7 witness: the quiz screen stands on an answered question while an
\* option is pending.
C7_Witness ==
  /\ QuizShown
  /\ hasAnsweredCurrent(quizState)
  /\ pendingAnswer # NULL

\* C8: Confirm commits the pending value under the id of the current
\* question, clears pendingAnswer and changes nothing else: index,
\* isFinished, session questions, master questions, title, ledger and the
\* other answers; handleConfirmAnswer without a pending value changes nothing.
C8_ConfirmFrame ==
  [][/\ ConfirmAnswer =>
          /\ DOMAIN quizState'.userAnswers =
               DOMAIN quizState.userAnswers \cup {CurrentQuestion(quizState).id}
          /\ quizState'.userAnswers[CurrentQuestion(quizState).id] = pendingAnswer
          /\ \A id \in DOMAIN quizState.userAnswers :
               id # CurrentQuestion(quizState).id =>
                 quizState'.userAnswers[id] = quizState.userAnswers[id]
          /\ pendingAnswer' = NULL
          /\ quizState'.currentQuestionIndex = quizState.currentQuestionIndex
          /\ quizState'.isFinished = quizState.isFinished
          /\ quizState'.questions = quizState.questions
          /\ UNCHANGED <<questions, quizName, attempts, mode>>
     /\ HasCurrent(quizState) =>
          handleConfirmAnswer(quizState, NULL) =
            [quizState |-> quizState, pendingAnswer |-> NULL]]_vars

\* C8 witness: two answers committed one after the other, nothing pending.
C8_Witness ==
  /\ mode = "QUIZ"
  /\ ~quizState.isFinished
  /\ pendingAnswer = NULL
  /\ Cardinality(DOMAIN quizState.userAnswers) = 2

\* C9: after Next, Previous or a click in the question list pendingAnswer
\* is absent.
C9_NavigationClearsPending ==
  [][(GoToNext \/ GoToPrev \/ \E idx \in 0..(MaxQ - 1) : JumpTo(idx)) =>
       pendingAnswer' = NULL]_vars

\* C10: after a step that re-creates the session pendingAnswer is absent.
C10_RecreationClearsPending ==
  [][SessionRecreated => pendingAnswer' = NULL]_vars

\* C11: a step in which a handleFileUpload invocation fails (it ends while
\* waiting for the PDF text or for the backend) sets the mode UPLOAD and a
\* non-empty error and leaves questions, quizName, quizState and attempts
\* unchanged.
C11_FailureLeavesQuizAlone ==
  [][\A i \in 1..Len(uploads) :
       (uploads[i].pc \in {"pdf", "gemini"} /\ uploads' = RemoveAt(uploads, i)) =>
         /\ mode' = "UPLOAD"
         /\ error' # NULL /\ error' # ""
         /\ UNCHANGED <<questions, quizName, quizState, attempts>>]_vars

\* C11 witness: an extraction found no questions while an earlier quiz
\* exists; the upload screen shows the message and the earlier quiz.
C11_Witness ==
  /\ mode = "UPLOAD"
  /\ error = MsgNoQuestions(build)
  /\ uploads = <<>>
  /\ Len(questions) > 0
  /\ quizState.questions = questions

\* C12: when the 800 ms timer of an extraction sets the mode QUIZ, the
\* session is non-empty and fresh: its questions are the master questions,
\* the index is 0, there are no answers and it is not finished.
C12_QuizEnteredFresh ==
  [][\A i \in 1..Len(uploads) :
       EnterQuiz(i) =>
         /\ Len(quizState'.questions) > 0
         /\ quizState'.questions = questions'
         /\ quizState'.currentQuestionIndex = 0
         /\ quizState'.userAnswers = EmptyAnswers
         /\ ~quizState'.isFinished]_vars

\* the indices of the master questions a retake mode keeps, written from
\* the three rules of the retake filter
KeptIndices(filter) ==
  {i \in 1..Len(questions) :
     \/ filter = "all"
     \/ /\ filter = "incorrect"
        /\ \/ questions[i].id \notin DOMAIN quizState.userAnswers
           \/ quizState.userAnswers[questions[i].id] # questions[i].correctAnswer
     \/ /\ filter = "low-confidence"
        /\ questions[i].confidence < 80}

\* the master questions at the indices keep, in master order
InMasterOrder(keep) ==
  [k \in 1..Cardinality(keep) |->
     questions[CHOOSE i \in keep : Cardinality({j \in keep : j < i}) = k - 1]]

C14_RetakeStartsFreshSession ==
  [][\A filter \in RetakeButtons :
       (/\ resetQuiz(filter)
        /\ Len(RetakeFilter(build, filter, questions, quizState.userAnswers)) > 0) =>
         /\ quizState'.questions =
              RetakeFilter(build, filter, questions, quizState.userAnswers)
         /\ quizState'.currentQuestionIndex = 0
         /\ quizState'.userAnswers = EmptyAnswers
         /\ ~quizState'.isFinished
         /\ mode' = "QUIZ"
         /\ UNCHANGED <<questions, quizName, attempts>>]_vars

\* C14 witness: a retake session just started after a finished attempt in
\* which an answer had been committed (the stored history is non-empty, the
\* session is fresh).
C14_Witness ==
  /\ mode = "QUIZ"
  /\ Len(attempts) > 0
  /\ attempts[1].score > 0
  /\ quizState.userAnswers = EmptyAnswers
  /\ quizState.currentQuestionIndex = 0
  /\ ~quizState.isFinished
  /\ Len(quizState.questions) > 0
  /\ Len(quizState.questions) < Len(questions)

\* C15: when a retake button of the results screen finds no question, the
\* click leaves an error message set.
C15_EmptyRetakeSurfaced ==
  \A filter \in RetakeButtons :
    (/\ mode = "RESULTS"
     /\ ~RenderCrashed
     /\ Len(RetakeFilter(build, filter, questions, quizState.userAnswers)) = 0) =>
      ErrorAfterEmptyRetake(build, error) # NULL

\* every question of qs has a committed answer equal to its correctAnswer
AllCorrect(qs) ==
  \A i \in 1..Len(qs) :
    /\ qs[i].id \in DOMAIN quizState.userAnswers
    /\ quizState.userAnswers[qs[i].id] = qs[i].correctAnswer

\* C16 as stated: on the results screen of a finished session all of whose
\* questions were answered correctly, the incorrect filter finds nothing.
C16_AllCorrectSessionRetakeEmpty ==
  (/\ mode = "RESULTS"
   /\ quizState.isFinished
   /\ Len(quizState.questions) > 0
   /\ AllCorrect(quizState.questions)) =>
    RetakeFilter(build, "incorrect", questions, quizState.userAnswers) = <<>>

\* C16 amended: on the results screen of a finished session in which every
\* master question was answered correctly, the incorrect filter finds
\* nothing and Retake Incorrect starts no session: session, mode and
\* pendingAnswer stay as they are.
C16_AllCorrectMasterRetakeEmpty ==
  [][(/\ mode = "RESULTS"
      /\ ~RenderCrashed
      /\ quizState.isFinished
      /\ Len(questions) > 0
      /\ AllCorrect(questions)) =>
       /\ RetakeFilter(build, "incorrect", questions, quizState.userAnswers) = <<>>
       /\ resetQuiz("incorrect") => UNCHANGED <<quizState, mode, pendingAnswer>>]_vars

\* C16 witness: Retake Incorrect was clicked on the results of a two-question
\* session with both answers right, and was refused.
C16_Witness ==
  /\ mode = "RESULTS"
  /\ quizState.isFinished
  /\ Len(questions) = 2
  /\ AllCorrect(questions)
  /\ error = MsgNoMatch

\* C17: in every reachable state each record of the session has a master
\* record with the same id, and every master record with that id is equal
\* to it field for field.
C17_SessionCopiesMatchMaster ==
  \A i \in 1..Len(quizState.questions) :
    /\ \E j \in 1..Len(questions) : questions[j].id = quizState.questions[i].id
    /\ \A j \in 1..Len(questions) :
         questions[j].id = quizState.questions[i].id =>
           questions[j] = quizState.questions[i]

\* C17 witness: a retake session holds a record whose correctAnswer was
\* edited on the Admin screen.
C17_Witness ==
  /\ Len(quizState.questions) > 0
  /\ Len(quizState.questions) < Len(questions)
  /\ \E i \in 1..Len(quizState.questions) :
       /\ quizState.questions[i].question = SentinelRecord.question
       /\ quizState.questions[i].correctAnswer # AnswerSentinel

\* C18: an edit on the Admin screen leaves the ledger as it is, and a
\* finishQuiz call scores each session question against the correctAnswer
\* the master record of that id holds at the time of the call.
C18_EditKeepsLedger ==
  [][/\ (\E i \in 1..Len(questions) : \E u \in AdminEdits(questions[i]) :
           saveEditedQuestion(questions[i].id, u)) => attempts' = attempts
     /\ FinishCall =>
          attempts'[1].score =
            Cardinality({i \in 1..Len(quizState.questions) :
                           \E j \in 1..Len(questions) :
                             /\ questions[j].id = quizState.questions[i].id
                             /\ questions[j].id \in DOMAIN quizState.userAnswers
                             /\ quizState.userAnswers[questions[j].id]
                                  = questions[j].correctAnswer})]_vars

\* C18 witness: the ledger holds an older attempt with a lower score and a
\* newer one that counts an answer matching an edited correctAnswer.
C18_Witness ==
  /\ mode = "RESULTS"
  /\ Len(attempts) = 2
  /\ attempts[1].score > attempts[2].score
  /\ \E i \in 1..Len(quizState.questions) :
       /\ quizState.questions[i].question = SentinelRecord.question
       /\ quizState.questions[i].correctAnswer # AnswerSentinel
       /\ AnswerOf(quizState.userAnswers, quizState.questions[i].id)
            = quizState.questions[i].correctAnswer

\* C19: every step leaves the ledger unchanged, or puts exactly one new
\* Attempt in front of the unchanged earlier ones, or empties the ledger.
C19_LedgerAppendOnly ==
  [][\/ attempts' = attempts
     \/ /\ Len(attempts') = Len(attempts) + 1
        /\ \A k \in 1..Len(attempts) : attempts'[k + 1] = attempts[k]
     \/ attempts' = <<>>]_vars

\* C19 witness: the history screen lists two different attempts.
C19_Witness ==
  /\ mode = "PROGRESS"
  /\ Len(attempts) = 2
  /\ attempts[1] # attempts[2]

\* C20: a step that empties a non-empty ledger also empties the master
\* questions and the session.
C20_LedgerClearedOnlyWithQuiz ==
  [][(attempts # <<>> /\ attempts' = <<>>) =>
       /\ questions' = <<>>
       /\ quizState'.questions = <<>>
       /\ quizState'.userAnswers = EmptyAnswers]_vars

\* C21: in every state the history slot holds exactly the current ledger
\* and, while the master questions are non-empty, the quiz slot holds
\* exactly the current questions, title and progress (index, answers,
\* finished flag).
C21_SlotsHoldCurrentState ==
  /\ storage.history = JSONstringify(attempts)
  /\ Len(questions) > 0 =>
       storage.quiz = JSONstringify(
         [questions |-> questions, title |-> quizName,
          progress |-> [currentQuestionIndex |-> quizState.currentQuestionIndex,
                        userAnswers |-> quizState.userAnswers,
                        isFinished |-> quizState.isFinished]])

\* C21 witness: a session with a confirmed answer and a recorded attempt,
\* both found in the two slots.
C21_Witness ==
  /\ Len(questions) > 0
  /\ quizState.userAnswers # EmptyAnswers
  /\ Len(attempts) > 0
  /\ storage.quiz.present
  /\ JSONparse(storage.quiz).progress.userAnswers = quizState.userAnswers
  /\ JSONparse(storage.history) = attempts

\* C22: a reload of a state with non-empty master questions reconstructs
\* the session that was in memory: the same session questions (also when
\* they are a retake-filtered part of the master questions), the same
\* index, answers and finished flag.
C22_ReloadRestoresSession ==
  [][(Reload /\ Len(questions) > 0) =>
       /\ quizState'.questions = quizState.questions
       /\ quizState'.currentQuestionIndex = quizState.currentQuestionIndex
       /\ quizState'.userAnswers = quizState.userAnswers
       /\ quizState'.isFinished = quizState.isFinished]_vars

\* C23: a reload always ends on the upload screen, also when a slot holds
\* a text that cannot be decoded; the quiz then starts empty when it was
\* the quiz slot, the ledger starts empty when it was the history slot.
C23_StartupSurvivesCorruptSlots ==
  [][Reload =>
       /\ mode' = "UPLOAD"
       /\ (storage.quiz.present /\ ~Decodable(storage.quiz)) =>
            (questions' = <<>> /\ quizState' = FreshSession(<<>>))
       /\ (storage.history.present /\ ~Decodable(storage.history)) =>
            attempts' = <<>>]_vars

\* The failure kinds of extract, by the reply: no text, a text that does
\* not parse after the client's cleaning, a document whose questions are
\* absent or not an array.
ErrorKind(b, text) ==
  IF text.kind = "empty" THEN "EmptyResponse"
  ELSE IF ~JSONparses(CleanedText(b, text)) THEN "MalformedOutput"
  ELSE IF text.body.questions.kind # "array" THEN "SchemaViolation"
  ELSE "none"

\* C24: when extract fails, the upload ends on the upload screen and the
\* error it leaves differs from the error that any reply of another
\* failure kind (empty response, malformed output, schema violation) would
\* have left: the kind can be read off the error.
C24_ErrorKindsDistinguishable ==
  [][\A i \in 1..Len(uploads) : \A t1 \in ReplyTexts :
       (/\ uploads[i].pc = "gemini"
        /\ Len(uploads') < Len(uploads)
        /\ ErrorKind(build, t1) # "none"
        /\ GeminiSettles(i, t1))
       => /\ mode' = "UPLOAD"
          /\ \A t2 \in ReplyTexts :
               ErrorKind(build, t2) \notin {"none", ErrorKind(build, t1)}
                 => extractMCQsFromText(build, t2, now).message # error']_vars

\* a reply without its surrounding whitespace and code-fence markers
Unwrapped(text) == [text EXCEPT !.lead = FALSE, !.fence = "none"]

\* C25: a reply that is a JSON document wrapped in whitespace and/or a
\* code fence (tagged json or not) is extracted with the same title and
\* questions as the bare document.
C25_WrappingStripped ==
  [][\A i \in 1..Len(uploads) : \A text \in ReplyTexts :
       (/\ uploads[i].pc = "gemini"
        /\ text.kind = "text"
        /\ text.body.json
        /\ extractMCQsFromText(build, Unwrapped(text), now).ok
        /\ Len(extractMCQsFromText(build, Unwrapped(text), now).questions) > 0
        /\ GeminiSettles(i, text))
       => /\ Len(uploads') = Len(uploads)
          /\ uploads'[i].pc = "t600"
          /\ uploads'[i].result.title
               = extractMCQsFromText(build, Unwrapped(text), now).title
          /\ uploads'[i].result.questions
               = extractMCQsFromText(build, Unwrapped(text), now).questions]_vars

\* C26: the questions of a successful extraction are as many as the
\* records of the reply and in the same order, and each carries every
\* field of its record other than id with the record's value, also when
\* the record lacks declared fields.
C26_RecordsKeptInOrder ==
  [][\A i \in 1..Len(uploads) : \A text \in ReplyTexts :
       (/\ uploads[i].pc = "gemini"
        /\ Len(uploads') = Len(uploads)
        /\ uploads'[i].pc = "t600"
        /\ GeminiSettles(i, text))
       => LET items == text.body.questions.items
              out == uploads'[i].result.questions
          IN /\ Len(out) = Len(items)
             /\ \A k \in 1..Len(items) :
                  \A f \in DOMAIN items[k] \ {"id"} :
                    f \in DOMAIN out[k] /\ out[k][f] = items[k][f]]_vars

\* C26 witness: an extraction has returned two questions, the first from
\* a record without options and correctAnswer, the second from a complete
\* record.
C26_Witness ==
  \E i \in 1..Len(uploads) :
    /\ uploads[i].pc = "t600"
    /\ Len(uploads[i].result.questions) = 2
    /\ "correctAnswer" \notin DOMAIN uploads[i].result.questions[1]
    /\ uploads[i].result.questions[1].question = UnderSpecifiedRecord.question
    /\ uploads[i].result.questions[2].question = AnswerableRecord.question

\* C27: ids given by one extraction are pairwise distinct and none is the
\* id the backend record brought, and two extractions whose results are
\* held at the same time share no id, whatever the clock read when each
\* completed.
C27_IdsUnique ==
  /\ \A i \in 1..Len(uploads) :
       LET qs == uploads[i].result.questions
       IN /\ \A k, l \in 1..Len(qs) : qs[k].id = qs[l].id => k = l
          /\ \A k \in 1..Len(qs) : qs[k].id # UnderSpecifiedRecord.id
  /\ \A i, j \in 1..Len(uploads) :
       i # j => Ids(uploads[i].result.questions) \cap Ids(uploads[j].result.questions) = {}

\* C28: a successful extraction returns the title of the reply when that
\* is a non-empty text and the client's fixed fallback title when it is
\* absent or empty; the returned title is never empty.
C28_TitleOrFallback ==
  [][\A i \in 1..Len(uploads) : \A text \in ReplyTexts :
       (/\ uploads[i].pc = "gemini"
        /\ Len(uploads') = Len(uploads)
        /\ uploads'[i].pc = "t600"
        /\ GeminiSettles(i, text))
       => /\ uploads'[i].result.title \notin {NULL, ""}
          /\ uploads'[i].result.title =
               IF text.body.title \in {NULL, ""}
               THEN (IF build = "strict" THEN "Untitled Quiz" ELSE "QuizAI Generated Quiz")
               ELSE text.body.title]_vars

\* C28 witness: an extraction has returned the fallback title with two
\* questions.
C28_Witness ==
  \E i \in 1..Len(uploads) :
    /\ uploads[i].pc = "t600"
    /\ uploads[i].result.title \in {"Untitled Quiz", "QuizAI Generated Quiz"}
    /\ Len(uploads[i].result.questions) = MaxQ

\* C29: in the augmented App, the document downloadQuizData exports from
\* the current title and master questions, read back by the initial-load
\* effect as a quiz of its own, gives the same questions in the same order
\* and the same title.
C29_ExportRoundTrip ==
  build = "augmented" =>
    LET loaded == LoadedQuiz(build, downloadQuizData(quizName, questions))
    IN /\ loaded.questions = questions
       /\ loaded.title = quizName

\* C29 witness: the results screen of the augmented App, where the export
\* button is, over a corrected two-question quiz whose export reads back
\* as the same quiz.
C29_Witness ==
  /\ build = "augmented"
  /\ mode = "RESULTS"
  /\ Len(questions) = MaxQ
  /\ \E i \in 1..Len(questions) :
       /\ questions[i].question = SentinelRecord.question
       /\ questions[i].correctAnswer # SentinelRecord.correctAnswer
  /\ LoadedQuiz(build, downloadQuizData(quizName, questions)).questions = questions

\* C30: every record of the master questions has a correctAnswer that is
\* the sentinel or one of its own options, and its options are pairwise
\* distinct; no edit of the Admin screen (question text, option text,
\* correctAnswer, explanation) breaks this.
C30_AnswerAmongDistinctOptions ==
  \A i \in 1..Len(questions) :
    /\ \/ questions[i].correctAnswer = AnswerSentinel
       \/ \E k \in 1..Len(questions[i].options) :
            questions[i].options[k] = questions[i].correctAnswer
    /\ \A k, l \in 1..Len(questions[i].options) :
         questions[i].options[k] = questions[i].options[l] => k = l

\* C31: an edit keeps the ids of the master questions and of the session
\* questions as they were (same length, same order), changes no record
\* other than those with the edited id, and leaves answers, index and
\* finished flag alone.
C31_EditFrame ==
  [][\A i \in 1..Len(questions) : \A u \in AdminEdits(questions[i]) :
       saveEditedQuestion(questions[i].id, u) =>
         /\ Len(questions') = Len(questions)
         /\ \A k \in 1..Len(questions) :
              /\ questions'[k].id = questions[k].id
              /\ questions[k].id # questions[i].id => questions'[k] = questions[k]
         /\ Len(quizState'.questions) = Len(quizState.questions)
         /\ \A k \in 1..Len(quizState.questions) :
              /\ quizState'.questions[k].id = quizState.questions[k].id
              /\ quizState.questions[k].id # questions[i].id
                   => quizState'.questions[k] = quizState.questions[k]
         /\ quizState'.userAnswers = quizState.userAnswers
         /\ quizState'.currentQuestionIndex = quizState.currentQuestionIndex
         /\ quizState'.isFinished = quizState.isFinished]_vars

\* C31 witness: on the Admin screen, a two-question quiz with a committed
\* answer in which the record that came with the sentinel has been given a
\* correctAnswer and the other record is as extracted.
C31_Witness ==
  /\ mode = "ADMIN"
  /\ Len(questions) = MaxQ
  /\ quizState.userAnswers # EmptyAnswers
  /\ \E i, j \in 1..Len(questions) :
       /\ questions[i].question = SentinelRecord.question
       /\ questions[i].correctAnswer # AnswerSentinel
       /\ questions[j].question = AnswerableRecord.question
       /\ questions[j].correctAnswer = AnswerableRecord.correctAnswer

\* the modes of the side excursions
ExcursionModes == {"UPLOAD", "ADMIN", "PROGRESS"}

\* a step of one of the handlers that only switch the mode
ModeSwitch == GoHome \/ OpenProgress \/ OpenAdmin \/ ContinueQuiz \/ StartNow

\* C32: a switch of mode to Admin, Progress or Upload, between them, or
\* back from them changes nothing but the mode (session questions, index,
\* answers, finished flag, master questions, title and ledger stay), and
\* a switch that leaves the excursion modes arrives in Quiz when the
\* session is unfinished and in Results when it is finished.
C32_ExcursionsKeepSession ==
  [][ModeSwitch =>
       /\ quizState' = quizState
       /\ questions' = questions
       /\ quizName' = quizName
       /\ attempts' = attempts
       /\ (mode \in ExcursionModes /\ mode' \notin ExcursionModes) =>
            mode' = IF quizState.isFinished THEN "RESULTS" ELSE "QUIZ"]_vars

\* C32 witness: back on the results screen of a finished session with a
\* recorded attempt while the Admin screen has been used in between (a
\* record that came with the sentinel has a correctAnswer).
C32_Witness ==
  /\ mode = "RESULTS"
  /\ quizState.isFinished
  /\ Len(attempts) > 0
  /\ quizState.userAnswers # EmptyAnswers
  /\ \E i \in 1..Len(questions) :
       /\ questions[i].question = SentinelRecord.question
       /\ questions[i].correctAnswer # AnswerSentinel

\* C33: a jump to an index takes place only for an index of the session
\* questions (0 <= index < length); it then sets the index to it and
\* leaves session questions, answers and finished flag alone.  For any
\* other index nothing happens.
C33_JumpInRange ==
  [][\A idx \in 0..(MaxQ - 1) :
       JumpTo(idx) =>
         /\ 0 <= idx /\ idx < Len(quizState.questions)
         /\ quizState'.currentQuestionIndex = idx
         /\ quizState'.questions = quizState.questions
         /\ quizState'.userAnswers = quizState.userAnswers
         /\ quizState'.isFinished = quizState.isFinished]_vars

\* C33 witness: the quiz screen on the last of MaxQ questions with the
\* questions before it unanswered.
C33_Witness ==
  /\ mode = "QUIZ"
  /\ Len(quizState.questions) = MaxQ
  /\ quizState.currentQuestionIndex = MaxQ - 1
  /\ quizState.userAnswers = EmptyAnswers
  /\ ~quizState.isFinished

\* C34: Next raises the index by exactly one when it is not the last index
\* of the session questions and otherwise finishes the session with the
\* index unchanged; Previous lowers the index by exactly one and is not
\* available at index 0; neither changes the answers or the session
\* questions.  The last index is that of the session questions, also for
\* a retake over fewer questions than the master list.
C34_NextPrevStep ==
  [][/\ GoToNext =>
          /\ quizState'.userAnswers = quizState.userAnswers
          /\ quizState'.questions = quizState.questions
          /\ IF quizState.currentQuestionIndex # Len(quizState.questions) - 1
             THEN /\ quizState'.currentQuestionIndex = quizState.currentQuestionIndex + 1
                  /\ quizState'.isFinished = quizState.isFinished
                  /\ mode' = mode
                  /\ attempts' = attempts
             ELSE /\ quizState'.currentQuestionIndex = quizState.currentQuestionIndex
                  /\ quizState'.isFinished
                  /\ mode' = "RESULTS"
                  /\ Len(attempts') = Len(attempts) + 1
     /\ GoToPrev =>
          /\ quizState.currentQuestionIndex > 0
          /\ quizState' = [quizState EXCEPT
                             !.currentQuestionIndex = quizState.currentQuestionIndex - 1]]_vars

\* C34 witness: a retake over fewer questions than the master list has
\* been finished by Next on its last question.
C34_Witness ==
  /\ mode = "RESULTS"
  /\ quizState.isFinished
  /\ Len(quizState.questions) < Len(questions)
  /\ quizState.currentQuestionIndex = Len(quizState.questions) - 1
  /\ Len(attempts) = 2

\* C35: the value a confirmation commits for a question is one of the
\* options of that question; an option selected while another question
\* was displayed is never committed after navigation.
C35_CommittedIsOwnOption ==
  [][ConfirmAnswer =>
       LET q == CurrentQuestion(quizState)
       IN \E k \in 1..Len(q.options) :
            q.options[k] = AnswerOf(quizState'.userAnswers, q.id)]_vars

\* C36: whenever the mode is QUIZ the session has questions and the index
\* addresses one of them, whatever the interleaving of the delayed switch
\* to QUIZ of a completing extraction with Reset Everything and the other
\* user actions.
C36_QuizHasCurrentQuestion ==
  mode = "QUIZ" => (Len(quizState.questions) > 0 /\ HasCurrent(quizState))

\* C37: whenever the mode is RESULTS, the score and the total the results
\* screen derives from the session are the score and the total of the
\* newest attempt of the ledger, also after an edit of correctAnswer and
\* for a retake over part of the master questions.
C37_ResultsMatchNewestAttempt ==
  mode = "RESULTS" =>
    /\ Len(attempts) > 0
    /\ attempts[1].score = ResultsScore(quizState)
    /\ attempts[1].total = ResultsTotal(build, quizState, questions)

\* C38: under the fair scheduling of promises and timers, whenever the mode
\* is EXTRACTING it later is QUIZ or UPLOAD; and the mode leaves EXTRACTING
\* only by the end of an upload in flight (its switch to QUIZ or its
\* failure) or by the user going Home.
C38_ExtractingEnds ==
  /\ (mode = "EXTRACTING") ~> (mode \in {"QUIZ", "UPLOAD"})
  /\ [][(mode = "EXTRACTING" /\ mode' # "EXTRACTING") =>
          \/ mode' = "QUIZ" /\ \E i \in 1..Len(uploads) : EnterQuiz(i)
          \/ mode' = "UPLOAD" /\ \E i \in 1..Len(uploads) : UploadFails(i, error')
          \/ mode' = "UPLOAD" /\ GoHome]_vars

\* C38 witness: an extraction has run to its end and the quiz screen shows
\* the installed questions.
C38_Witness ==
  /\ mode = "QUIZ"
  /\ uploads = <<>>
  /\ Len(questions) = MaxQ
  /\ quizState = FreshSession(questions)

====
